---- MODULE Spec2Model ----
(***************************************************************************)
(* Model of src/start.js: the HAProxy configurator.  A handlebars template *)
(* is dry-run once to learn which DNS SRV names it needs (checkTemplate),  *)
(* every cycle resolves those names (generateContext, resolveSRV,          *)
(* resolveIP), renders the template, diffs it against the file on disk and *)
(* writes / reloads on change (regenerateConfiguration).  The main         *)
(* sequence runs one bootstrap cycle, verifies, starts HAProxy and then    *)
(* installs the periodic timer (scheduleRefresh).                          *)
(***************************************************************************)
EXTENDS Integers, Sequences, FiniteSets, TLC

\* ------------------------------------------------------------------ bounds
\* number of timer firings explored after scheduleRefresh
MaxTicks == 2
\* longest SRV answer (number of target records) explored
MaxTargets == 2

\* ------------------------------------------------------- program constants
\* process.exit(-1): the status the operating system reports is 8 bits wide
ExitArg == -1
ExitStatus(n) == n % 256

\* ------------------------------------------------------------ environment
\* A value of the Map dnsCache.srv: services.set(key) stores JavaScript
\* undefined, services.set(key, array) stores the array.
Unresolved == [defined |-> FALSE, list |-> <<>>]
Resolved(list) == [defined |-> TRUE, list |-> list]
\* entry.ip before resolveIP has set it
NoIp == "undefined"
\* The configuration file: NoFile when fs.existsSync(configurationFile) is
\* false, else its text.
NoFile == [exists |-> FALSE, text |-> <<>>]
FileOf(text) == [exists |-> TRUE, text |-> text]

\* The DNS names the environment knows.  LiteralNames are the names that
\* ip.isV4Format / ip.isV6Format accept.
LiteralNames == {"10.0.0.9"}
\* a.name.localeCompare(b.name) on the names of the zone: digits collate
\* before letters
NameRank == [n \in {"10.0.0.9", "a", "b"} |->
               CASE n = "10.0.0.9" -> 1 [] n = "a" -> 2 [] n = "b" -> 3]
localeCompare(x, y) == NameRank[x] - NameRank[y]

\* one record of a dns.resolveSrv answer
SrvRecord(name, port) == [name |-> name, ip |-> NoIp, port |-> port,
                          priority |-> 0, weight |-> 0]
\* the SRV records that exist per service name
Zone(dnsName) ==
    CASE dnsName = "k1" -> {SrvRecord("a", 80), SrvRecord("a", 81),
                            SrvRecord("10.0.0.9", 80)}
      [] dnsName = "k2" -> {SrvRecord("b", 80)}
      [] OTHER -> {}
\* the service names a template can look up; "k3" has no records
DnsNames == {"k1", "k2", "k3"}

\* the answers dns.resolve(name) gives when it succeeds (a non-empty list)
AddressAnswer(name) ==
    CASE name = "a" -> <<"10.0.0.1", "10.0.0.2">>
      [] name = "b" -> <<"10.0.0.3">>
      [] OTHER -> <<"10.0.0.0">>

Range(s) == {s[i] : i \in DOMAIN s}
\* sequences without repetition over S of length <= n
RECURSIVE DistinctSeqs(_, _)
DistinctSeqs(S, n) ==
    IF n = 0 \/ S = {} THEN {<<>>}
    ELSE {<<>>} \cup
         UNION {{<<x>> \o t : t \in DistinctSeqs(S \ {x}, n - 1)} : x \in S}
\* the results dns.resolveSrv(dnsName) can deliver
SrvAnswers(dnsName) == DistinctSeqs(Zone(dnsName), MaxTargets)


\* ------------------------------------------------------------- resolveSRV
\* result.sort((a,b) => a.name.localeCompare(b.name)): Array.prototype.sort
\* is stable, so records whose names compare equal keep the order of the
\* answer.  sortInsert puts e behind every element that does not sort after
\* it.
RECURSIVE sortInsert(_, _)
sortInsert(e, s) ==
    IF s = <<>> THEN <<e>>
    ELSE IF localeCompare(s[Len(s)].name, e.name) <= 0
         THEN Append(s, e)
         ELSE Append(sortInsert(e, SubSeq(s, 1, Len(s) - 1)), s[Len(s)])
RECURSIVE sortByName(_)
sortByName(result) ==
    IF result = <<>> THEN <<>>
    ELSE sortInsert(result[Len(result)],
                    sortByName(SubSeq(result, 1, Len(result) - 1)))

\* isLiteral as it would be if no name were taken for an address
isLiteralNever(name) == FALSE
\* ip.isV4Format(name) || ip.isV6Format(name)
isLiteral(name) == name \in LiteralNames

\* resolveIP, synchronous branch: a literal name is its own address
resolveIPLiteral(entry) ==
    IF isLiteral(entry.name) THEN [entry EXCEPT !.ip = entry.name] ELSE entry
\* resolveIP: the number of dns.resolve calls it makes for an entry
resolveIPLookups(entry) == IF isLiteral(entry.name) THEN 0 ELSE 1
\* resolveIP, dns.resolve callback without error: entry.ip = address[0]
resolveIPAnswer(entry, address) == [entry EXCEPT !.ip = address[1]]

\* state of the promise resolveSRV(dnsName) returns: st and, while it is not
\* rejected, entries (the array handed to Promise.all).  answer is the array
\* dns.resolveSrv delivered and why the lookup that failed; nothing in the
\* program reads them.  asked counts, per entry, the dns.resolve calls made.
Pending ==
    [st |-> "pending", entries |-> <<>>, answer |-> <<>>, asked |-> <<>>, why |-> ""]
Rejected(why) ==
    [st |-> "rejected", entries |-> <<>>, answer |-> <<>>, asked |-> <<>>, why |-> why]
Fulfilled(entries, answer, asked) ==
    [st |-> "fulfilled", entries |-> entries, answer |-> answer, asked |-> asked,
     why |-> ""]
\* Promise.all(result.map(resolveIP)) while address lookups are in flight:
\* fulfilled as soon as every entry has its ip
allSettle(entries, answer, asked) ==
    IF \A i \in DOMAIN entries : entries[i].ip # NoIp
    THEN Fulfilled(entries, answer, asked)
    ELSE [st |-> "addr", entries |-> entries, answer |-> answer, asked |-> asked,
          why |-> ""]
\* dns.resolveSrv callback without error
srvResolved(result) ==
    IF Len(result) > 0
    THEN LET sorted == sortByName(result)
         IN allSettle([i \in DOMAIN sorted |-> resolveIPLiteral(sorted[i])],
                      result,
                      [i \in DOMAIN sorted |-> resolveIPLookups(sorted[i])])
    ELSE Fulfilled(<<>>, result, <<>>)
\* dns.resolveSrv callback with an error
srvFailed == Rejected("srv")
\* addrFailed as it would be if a failed target were left out of the list
addrFailedSkip(p, i) ==
    allSettle([j \in 1..(Len(p.entries) - 1) |->
                 IF j < i THEN p.entries[j] ELSE p.entries[j + 1]], p.answer,
              [j \in 1..(Len(p.entries) - 1) |->
                 IF j < i THEN p.asked[j] ELSE p.asked[j + 1]])
\* dns.resolve callback for entry i of a key whose addresses are in flight:
\* an error rejects Promise.all at once, an answer sets the ip of the entry
addrFailed(p, i) == Rejected("addr")
addrResolved(p, i, address) ==
    allSettle([p.entries EXCEPT ![i] = resolveIPAnswer(p.entries[i], address)],
              p.answer, p.asked)

\* -------------------------------------------------------- generateContext
\* hashSettled as it would be if it settled with its first promise
hashSettledRace(promises) ==
    \E dnsName \in DOMAIN promises :
       promises[dnsName].st \in {"fulfilled", "rejected"}
\* RSVP.hashSettled(promises) is fulfilled once every promise is settled
hashSettled(promises) ==
    \A dnsName \in DOMAIN promises :
       promises[dnsName].st \in {"fulfilled", "rejected"}
\* RSVP.hashSettled(...).then: what services.set stores for one key
settledValue(promiseResult) ==
    IF promiseResult.st = "fulfilled" THEN Resolved(promiseResult.entries)
    ELSE Unresolved
\* storeSettled as it would be with a join that fails as a whole
storeSettledAll(services, result) ==
    IF \E key \in DOMAIN services : result[key].st = "rejected"
    THEN [key \in DOMAIN services |-> Unresolved]
    ELSE [key \in DOMAIN services |-> settledValue(result[key])]
\* writtenKeys as it would be if only fulfilled keys were set
writtenKeysFulfilled(result) ==
    {key \in DOMAIN result : result[key].st = "fulfilled"}
\* Object.keys(result).map(...): both branches call services.set(key, ...)
writtenKeys(result) == DOMAIN result
\* storeSettled as it would be if a rejected key were deleted from the Map
storeSettledDelete(services, result) ==
    [key \in (DOMAIN services \cup writtenKeys(result))
              \ {k \in DOMAIN result : result[k].st = "rejected"} |->
        IF key \in writtenKeys(result) THEN settledValue(result[key])
        ELSE services[key]]
\* the Map after the continuation: the keys of result are set, a key of the
\* Map that result does not name keeps its value
storeSettled(services, result) ==
    [key \in DOMAIN services \cup writtenKeys(result) |->
        IF key \in writtenKeys(result) THEN settledValue(result[key])
        ELSE services[key]]

\* ---------------------------------------------------------------- template
\* A configuration text is a sequence of lines; ws is the amount of leading
\* and trailing whitespace of the line.
Line(ws, kind, name, ipaddr, port) ==
    [ws |-> ws, kind |-> kind, name |-> name, ip |-> ipaddr, port |-> port]
TextSeg(line) == [type |-> "text", line |-> line, dnsName |-> ""]
BlockSeg(dnsName) == [type |-> "dns-srv", line |-> Line(0, "", "", "", 0),
                      dnsName |-> dnsName]
\* a template whose two names have few records
LeanTemplate ==
    << TextSeg(Line(0, "global", "", "", 0)), BlockSeg("k2"), BlockSeg("k3") >>
\* haproxy.cfg.template as read by checkTemplate: static text and
\* {{#dns-srv "name"}} ... {{/dns-srv}} blocks
Templates ==
    { << TextSeg(Line(0, "global", "", "", 0)), BlockSeg("k1"), BlockSeg("k2") >>,
      << BlockSeg("k2"), TextSeg(Line(0, "global", "", "", 0)), BlockSeg("k2") >>,
      LeanTemplate }

\* options.fn(context): the body of a block, a backend header and one
\* indented server line per endpoint of the context
blockBody(dnsName, context) ==
    << Line(0, "backend", dnsName, "", 0) >> \o
    [i \in DOMAIN context |->
        Line(1, "server", context[i].name, context[i].ip, context[i].port)]

\* a dry-run helper that starts the Map afresh at every call
mapSetAlone(map, dnsName) == [key \in {dnsName} |-> Unresolved]
\* dnsCache.srv.set(dnsName): the name is bound to undefined, the other
\* entries stay
mapSet(map, dnsName) ==
    [key \in DOMAIN map \cup {dnsName} |->
        IF key = dnsName THEN Unresolved ELSE map[key]]
\* the dry-run helper: records the name, returns undefined (no output)
gatherDataHelper(map, dnsName) == [map |-> mapSet(map, dnsName), out |-> <<>>]
\* template() with the dry-run helper registered: the Map it leaves and the
\* text it produces
RECURSIVE dryRunFrom(_, _, _)
dryRunFrom(tpl, map, i) ==
    IF i > Len(tpl) THEN [map |-> map, out |-> <<>>]
    ELSE IF tpl[i].type = "text"
         THEN LET rest == dryRunFrom(tpl, map, i + 1)
              IN [map |-> rest.map, out |-> <<tpl[i].line>> \o rest.out]
         ELSE LET helper == gatherDataHelper(map, tpl[i].dnsName)
                  rest == dryRunFrom(tpl, helper.map, i + 1)
              IN [map |-> rest.map, out |-> helper.out \o rest.out]
dryRun(tpl, map) == dryRunFrom(tpl, map, 1)
\* the names the dry run of a template leaves in an empty Map
gatherKeys(tpl) == DOMAIN dryRun(tpl, <<>>).map

\* JavaScript !v for the values a cache entry can hold: undefined is falsy,
\* every array (the empty one too) is truthy
isFalsy(v) == ~v.defined
\* the productive helper: does it call options.fn for this name
\* (map.get of a name the Map does not hold is undefined)
helperEvaluates(map, dnsName) ==
    dnsName \in DOMAIN map /\ ~isFalsy(map[dnsName])
helperOutput(map, dnsName) ==
    IF helperEvaluates(map, dnsName) THEN blockBody(dnsName, map[dnsName].list)
    ELSE <<>>

\* template(context) with the productive helper registered
RECURSIVE renderFrom(_, _, _)
renderFrom(tpl, map, i) ==
    IF i > Len(tpl) THEN <<>>
    ELSE (IF tpl[i].type = "text" THEN <<tpl[i].line>>
          ELSE helperOutput(map, tpl[i].dnsName))
         \o renderFrom(tpl, map, i + 1)
render(tpl, map) == renderFrom(tpl, map, 1)
\* the names for which the render called options.fn
evaluatedBlocks(tpl, map) ==
    {tpl[i].dnsName : i \in {j \in DOMAIN tpl :
        tpl[j].type = "dns-srv" /\ helperEvaluates(map, tpl[j].dnsName)}}

\* ------------------------------------------------------ diffTrimmedLines
\* trimLine as it would be if lines were compared untrimmed
trimLineNone(line) == line
trimLine(line) == [line EXCEPT !.ws = 0]
tokenize(text) == [i \in DOMAIN text |-> trimLine(text[i])]
RECURSIVE commonPrefix(_, _)
commonPrefix(a, b) ==
    IF a = <<>> \/ b = <<>> \/ a[1] # b[1] THEN 0
    ELSE 1 + commonPrefix(Tail(a), Tail(b))
RECURSIVE commonSuffix(_, _)
commonSuffix(a, b) ==
    IF a = <<>> \/ b = <<>> \/ a[Len(a)] # b[Len(b)] THEN 0
    ELSE 1 + commonSuffix(SubSeq(a, 1, Len(a) - 1), SubSeq(b, 1, Len(b) - 1))
Chunk(value, added, removed) == [value |-> value, added |-> added, removed |-> removed]
\* the change objects of jsdiff: common, removed and added runs of trimmed
\* lines; two equal texts give exactly one chunk that is neither
diffTrimmedLines(oldStr, newStr) ==
    LET a == tokenize(oldStr)
        b == tokenize(newStr)
        p == commonPrefix(a, b)
        a2 == SubSeq(a, p + 1, Len(a))
        b2 == SubSeq(b, p + 1, Len(b))
        q == commonSuffix(a2, b2)
        pre == SubSeq(a, 1, p)
        del == SubSeq(a2, 1, Len(a2) - q)
        ins == SubSeq(b2, 1, Len(b2) - q)
        post == SubSeq(a2, Len(a2) - q + 1, Len(a2))
        chunks == (IF pre = <<>> THEN <<>> ELSE <<Chunk(pre, FALSE, FALSE)>>)
               \o (IF del = <<>> THEN <<>> ELSE <<Chunk(del, FALSE, TRUE)>>)
               \o (IF ins = <<>> THEN <<>> ELSE <<Chunk(ins, TRUE, FALSE)>>)
               \o (IF post = <<>> THEN <<>> ELSE <<Chunk(post, FALSE, FALSE)>>)
    IN IF chunks = <<>> THEN <<Chunk(<<>>, FALSE, FALSE)>> ELSE chunks
\* diff.length > 1 || (diff[0].added || diff[0].removed)
changesDetected(diff) == Len(diff) > 1 \/ diff[1].added \/ diff[1].removed


\* ------------------------------------------------------------------- state
VARIABLES
    pc,             \* position of the main sequence (lines 291-298)
    template,       \* the compiled haproxy.cfg.template
    dnsCache,       \* dnsCache.srv: DNS name -> Unresolved | Resolved(list)
    file,           \* /etc/haproxy.cfg
    haproxyRunning, \* set by the haproxy.start callback
    cycles,         \* the calls of regenerateConfiguration: 0 is the one of
                    \* the main sequence, 1..MaxTicks the ones of the timer
    nticks,         \* timer firings so far
    exitStatus,     \* status given to process.exit
    verifyLog,      \* what verifyConfiguration found
    startLog,       \* what startHAProxy found
    last,           \* what the latest comparison step of a cycle did
    origin          \* per name, the cycle whose continuation set its value
                    \* last (-1: none since the dry run)

vars == <<pc, template, origin, dnsCache, file, haproxyRunning, cycles, nticks,
          exitStatus, verifyLog, startLog, last>>

CycleIds == 0..MaxTicks
Unstarted == [phase |-> "unstarted", result |-> <<>>]
NoComparison ==
    [cycle |-> -1, previous |-> <<>>, result |-> <<>>, originalConfig |-> <<>>, newConfig |-> <<>>,
     evaluated |-> {}, changed |-> FALSE, writeFailed |-> FALSE,
     written |-> FALSE, running |-> FALSE, reload |-> FALSE]

\* the whitespace of every line changed: the same configuration, indented
Reindent(text) == [i \in DOMAIN text |-> [text[i] EXCEPT !.ws = text[i].ws + 1]]
\* what may be on disk when the process starts
InitFiles(tpl) ==
    { NoFile,
      FileOf(<<Line(0, "stale", "", "", 0)>>),
      FileOf(Reindent(render(tpl, [k \in gatherKeys(tpl) |-> Unresolved]))) }

Init ==
    /\ pc = "checkTemplate"
    /\ template \in Templates
    /\ dnsCache = <<>>
    /\ file \in InitFiles(template)
    /\ haproxyRunning = FALSE
    /\ cycles = [c \in CycleIds |-> Unstarted]
    /\ nticks = 0
    /\ exitStatus = 0
    /\ verifyLog = "none"
    /\ startLog = "none"
    /\ last = NoComparison
    /\ origin = <<>>

\* mainSequence as it would be with verifyConfiguration left out
mainSequenceNoVerify(step) ==
    CASE step = "checkTemplate" -> "bootstrap"
      [] step = "bootstrap" -> "start"
      [] step = "verify" -> "start"
      [] step = "start" -> "schedule"
      [] step = "schedule" -> "running"

\* The main sequence: the step that follows a step whose promise resolved.
\* reportSuccess and logStats change no state and are part of "running".
mainSequence(step) ==
    CASE step = "checkTemplate" -> "bootstrap"
      [] step = "bootstrap" -> "verify"
      [] step = "verify" -> "start"
      [] step = "start" -> "schedule"
      [] step = "schedule" -> "running"

\* onFailure as it would be if it only logged
onFailureLogOnly == UNCHANGED <<pc, exitStatus>>

\* onFailure: process.exit(-1)
onFailure ==
    /\ pc' = "exited"
    /\ exitStatus' = ExitStatus(ExitArg)

\* checkTemplate: the dry run stores every name the template looks up, with
\* no value
checkTemplate ==
    /\ pc = "checkTemplate"
    /\ dnsCache' = dryRun(template, dnsCache).map
    /\ origin' = [dnsName \in DOMAIN dnsCache' |-> -1]
    /\ pc' = mainSequence("checkTemplate")
    /\ UNCHANGED <<template, file, haproxyRunning, cycles, nticks, exitStatus,
                   verifyLog, startLog, last>>

\* generateContext up to RSVP.hashSettled: one resolveSRV promise per name
\* of the cache.  The log of the previous comparison is dropped.
generateContext(c) ==
    /\ cycles' = [cycles EXCEPT ![c] =
                    [phase |-> "resolving",
                     result |-> [dnsName \in DOMAIN dnsCache |-> Pending]]]
    /\ last' = NoComparison

\* .then(regenerateConfiguration) of the main sequence
Bootstrap ==
    /\ pc = "bootstrap"
    /\ cycles[0].phase = "unstarted"
    /\ generateContext(0)
    /\ UNCHANGED <<pc, template, origin, dnsCache, file, haproxyRunning, nticks,
                   exitStatus, verifyLog, startLog>>

\* the setInterval callback of scheduleRefresh; it does not look at the
\* cycles still in flight
Tick ==
    /\ pc = "running"
    /\ nticks < MaxTicks
    /\ nticks' = nticks + 1
    /\ generateContext(nticks + 1)
    /\ UNCHANGED <<pc, template, origin, dnsCache, file, haproxyRunning, exitStatus,
                   verifyLog, startLog>>

\* the dns.resolveSrv callback of one name of one cycle
SrvReply(c, dnsName) ==
    /\ pc # "exited"
    /\ cycles[c].phase = "resolving"
    /\ cycles[c].result[dnsName].st = "pending"
    /\ \/ cycles' = [cycles EXCEPT ![c].result[dnsName] = srvFailed]
       \/ \E answer \in SrvAnswers(dnsName) :
            cycles' = [cycles EXCEPT ![c].result[dnsName] = srvResolved(answer)]
    /\ UNCHANGED <<pc, template, origin, dnsCache, file, haproxyRunning, nticks,
                   exitStatus, verifyLog, startLog, last>>

\* the dns.resolve callback of one target of one name of one cycle
AddrReply(c, dnsName, i) ==
    /\ pc # "exited"
    /\ cycles[c].phase = "resolving"
    /\ cycles[c].result[dnsName].st = "addr"
    /\ i \in DOMAIN cycles[c].result[dnsName].entries
    /\ cycles[c].result[dnsName].entries[i].ip = NoIp
    /\ LET p == cycles[c].result[dnsName]
       IN \/ cycles' = [cycles EXCEPT ![c].result[dnsName] = addrFailed(p, i)]
          \/ cycles' = [cycles EXCEPT ![c].result[dnsName] =
                          addrResolved(p, i, AddressAnswer(p.entries[i].name))]
    /\ UNCHANGED <<pc, template, origin, dnsCache, file, haproxyRunning, nticks,
                   exitStatus, verifyLog, startLog, last>>

\* reloadWanted as it would be without the haproxyRunning test
reloadAlways(running) == TRUE
\* if (haproxyRunning) haproxy.reload(...) else resolve()
reloadWanted(running) == running

\* Chain as it would be if the rejection of a cycle were swallowed
ChainSwallow(c, phase) ==
    /\ pc' = (IF c = 0 /\ phase = "fulfilled"
              THEN mainSequence("bootstrap") ELSE pc)
    /\ UNCHANGED exitStatus

\* What the promise of a cycle that reached `phase` does to the main
\* sequence: a rejection reaches onFailure (.catch(onFailure) of the timer,
\* the final .catch of the main sequence), the fulfilment of cycle 0 lets the
\* main sequence go on to verifyConfiguration.
Chain(c, phase) ==
    IF phase = "rejected" THEN onFailure
    ELSE /\ pc' = (IF c = 0 /\ phase = "fulfilled"
                   THEN mainSequence("bootstrap") ELSE pc)
         /\ UNCHANGED exitStatus

\* The continuation of RSVP.hashSettled in generateContext followed by the
\* one in regenerateConfiguration: store the settled results, read the file,
\* render, diff, and on a change write the file and reload HAProxy when it
\* runs.  fs.writeFileSync may throw (writeOk = FALSE), which rejects the
\* promise of the cycle.
Compare(c) ==
    /\ pc # "exited"
    /\ cycles[c].phase = "resolving"
    /\ hashSettled(cycles[c].result)
    /\ LET services == storeSettled(dnsCache, cycles[c].result)
           originalConfig == IF file.exists THEN file.text ELSE <<>>
           newConfig == render(template, services)
           diff == diffTrimmedLines(originalConfig, newConfig)
           log == [NoComparison EXCEPT
                     !.cycle = c, !.previous = dnsCache,
                     !.result = cycles[c].result,
                     !.originalConfig = originalConfig, !.newConfig = newConfig,
                     !.evaluated = evaluatedBlocks(template, services),
                     !.running = haproxyRunning]
       IN /\ dnsCache' = services
          /\ origin' = [key \in DOMAIN services |->
                          IF key \in writtenKeys(cycles[c].result) THEN c
                          ELSE origin[key]]
          /\ IF changesDetected(diff)
             THEN \E writeOk \in BOOLEAN :
                    IF writeOk
                    THEN LET phase == IF reloadWanted(haproxyRunning)
                                      THEN "reloading" ELSE "fulfilled"
                         IN /\ file' = FileOf(newConfig)
                            /\ cycles' = [cycles EXCEPT ![c] =
                                            [phase |-> phase, result |-> <<>>]]
                            /\ last' = [log EXCEPT !.changed = TRUE,
                                          !.written = TRUE,
                                          !.reload = (phase = "reloading")]
                            /\ Chain(c, phase)
                    ELSE /\ file' = file
                         /\ cycles' = [cycles EXCEPT ![c] =
                                         [phase |-> "rejected", result |-> <<>>]]
                         /\ last' = [log EXCEPT !.changed = TRUE,
                                       !.writeFailed = TRUE]
                         /\ Chain(c, "rejected")
             ELSE /\ file' = file
                  /\ cycles' = [cycles EXCEPT ![c] =
                                  [phase |-> "unsettled", result |-> <<>>]]
                  /\ last' = log
                  /\ Chain(c, "unsettled")
    /\ UNCHANGED <<template, haproxyRunning, nticks, verifyLog, startLog>>

\* the haproxy.reload callback
ReloadReply(c) ==
    /\ pc # "exited"
    /\ cycles[c].phase = "reloading"
    /\ \E err \in BOOLEAN :
         LET phase == IF err THEN "rejected" ELSE "fulfilled"
         IN /\ cycles' = [cycles EXCEPT ![c].phase = phase]
            /\ Chain(c, phase)
    /\ UNCHANGED <<template, origin, dnsCache, file, haproxyRunning, nticks, verifyLog,
                   startLog, last>>

\* Somebody else removes the configuration file while the main sequence is
\* about to verify it: the one way fs.existsSync can be false at line 47.
ExternalUnlink ==
    /\ pc = "verify"
    /\ file.exists
    /\ file' = NoFile
    /\ UNCHANGED <<pc, template, origin, dnsCache, haproxyRunning, cycles, nticks,
                   exitStatus, verifyLog, startLog, last>>

\* verifyResolves as it would be if "not working" rejected
verifyResolvesStrict(outcome) == outcome = "verified"
\* what the main sequence does with the outcome of haproxy.verify:
\* err rejects, working or not working both resolve
verifyResolves(outcome) == outcome # "err"

\* verifyConfiguration with the callback of haproxy.verify
verifyConfiguration ==
    /\ pc = "verify"
    /\ IF ~file.exists
       THEN /\ verifyLog' = "nofile"
            /\ onFailure
       ELSE \E outcome \in {"err", "warnings", "verified"} :
              /\ verifyLog' = outcome
              /\ IF verifyResolves(outcome)
                 THEN pc' = mainSequence("verify") /\ UNCHANGED exitStatus
                 ELSE onFailure
    /\ UNCHANGED <<template, origin, dnsCache, file, haproxyRunning, cycles, nticks,
                   startLog, last>>

\* startHAProxy with the callback of haproxy.start
startHAProxy ==
    /\ pc = "start"
    /\ \E err \in BOOLEAN :
         IF err
         THEN /\ startLog' = "err"
              /\ onFailure
              /\ UNCHANGED haproxyRunning
         ELSE /\ startLog' = "started"
              /\ haproxyRunning' = TRUE
              /\ pc' = mainSequence("start")
              /\ UNCHANGED exitStatus
    /\ UNCHANGED <<template, origin, dnsCache, file, cycles, nticks, verifyLog, last>>

\* scheduleRefresh installs the timer; reportSuccess and logStats follow and
\* change nothing
scheduleRefresh ==
    /\ pc = "schedule"
    /\ pc' = mainSequence("schedule")
    /\ UNCHANGED <<template, origin, dnsCache, file, haproxyRunning, cycles, nticks,
                   exitStatus, verifyLog, startLog, last>>

\* every step but the timer's
Others ==
    \/ checkTemplate
    \/ Bootstrap
    \/ \E c \in CycleIds, dnsName \in DnsNames :
         dnsName \in DOMAIN dnsCache /\ SrvReply(c, dnsName)
    \/ \E c \in CycleIds, dnsName \in DnsNames, i \in 1..(MaxTargets + 1) :
         dnsName \in DOMAIN dnsCache /\ AddrReply(c, dnsName, i)
    \/ \E c \in CycleIds : Compare(c)
    \/ \E c \in CycleIds : ReloadReply(c)
    \/ ExternalUnlink
    \/ verifyConfiguration
    \/ startHAProxy
    \/ scheduleRefresh

Next == Tick \/ Others

\* The program: timer firings may overlap cycles that are still in flight.
Spec == Init /\ [][Next]_vars

\* a cycle whose lookups or reload are still in flight
InFlight(c) == cycles[c].phase \in {"resolving", "reloading"}
\* The refresh period is longer than a cycle takes: the timer fires only
\* when no cycle is in flight.
TickSerial == Tick /\ \A c \in CycleIds : ~InFlight(c)
NextSerial == TickSerial \/ Others
SerialSpec == Init /\ [][NextSerial]_vars

\* The program with overlapping cycles, started with the lean template.
OverlapInit == Init /\ template = LeanTemplate
OverlapSpec == OverlapInit /\ [][Next]_vars


\* ================================================================= claims
Compared == last.cycle # -1
\* two texts that differ at most in the whitespace around their lines
SameModuloWhitespace(a, b) ==
    /\ Len(a) = Len(b)
    /\ \A i \in DOMAIN a :
         /\ a[i].kind = b[i].kind /\ a[i].name = b[i].name
         /\ a[i].ip = b[i].ip /\ a[i].port = b[i].port

\* C1: a cycle whose rendered output equals the persisted configuration up
\* to whitespace around lines neither writes the file nor calls reload; a
\* reload call comes only after a write of the same cycle, and a write only
\* after a detected change.
C1_UnchangedSuppressesWriteAndReload ==
    Compared =>
      /\ SameModuloWhitespace(last.originalConfig, last.newConfig) =>
           /\ ~last.written /\ ~last.writeFailed /\ ~last.reload
           /\ cycles[last.cycle].phase # "reloading"
           /\ file.exists => file.text = last.originalConfig
      /\ last.reload => last.written
      /\ (last.written \/ last.writeFailed) =>
           ~SameModuloWhitespace(last.originalConfig, last.newConfig)
\* a scheduled cycle found no change while HAProxy runs
C1_Witness ==
    /\ last.cycle >= 1
    /\ last.running
    /\ SameModuloWhitespace(last.originalConfig, last.newConfig)
    /\ cycles[last.cycle].phase = "unsettled"

\* C2: the productive helper evaluates its block only for a name whose
\* cache value is a non-empty list; for Unresolved and for the empty list it
\* yields nothing.
C2_BlockOnlyForNonEmptyList ==
    Compared =>
      \A dnsName \in last.evaluated :
         dnsCache[dnsName].defined /\ dnsCache[dnsName].list # <<>>

\* C3: when the answers of a cycle are, name by name, permutations of the
\* answers the previous cycle stored (same records, same addresses), the
\* stored lists are the same and the cycle detects no change.
C3_PermutedAnswersNoChange ==
    ( /\ last.cycle >= 1
      /\ \A dnsName \in DOMAIN dnsCache :
            /\ last.previous[dnsName].defined
            /\ dnsCache[dnsName].defined
            /\ Len(last.previous[dnsName].list) = Len(dnsCache[dnsName].list)
            /\ Range(last.previous[dnsName].list) = Range(dnsCache[dnsName].list) )
    => (dnsCache = last.previous /\ ~last.changed)

\* C4: after a resolution pass every name whose lookup failed holds
\* Unresolved and every other name holds the result of its own lookup,
\* whatever happened to the other names; failed lookups never reject the
\* cycle.
C4_PerKeyIsolation ==
    Compared =>
      /\ \A dnsName \in DOMAIN dnsCache :
            dnsCache[dnsName] =
              IF last.result[dnsName].st = "fulfilled"
              THEN Resolved(last.result[dnsName].entries)
              ELSE Unresolved
      /\ cycles[last.cycle].phase = "rejected" => (last.writeFailed \/ last.reload)
\* the SRV lookup of k1 failed after a cycle that had resolved it, k2 resolved
C4_Witness ==
    /\ last.cycle >= 1
    /\ DOMAIN dnsCache = {"k1", "k2"}
    /\ last.result["k1"].why = "srv"
    /\ last.previous["k1"].defined /\ last.previous["k1"].list # <<>>
    /\ dnsCache["k1"] = Unresolved
    /\ dnsCache["k2"].defined /\ dnsCache["k2"].list # <<>>

StripIp(entry) == [entry EXCEPT !.ip = NoIp]
\* C5: a name whose address lookup failed for some target holds Unresolved;
\* a stored list has one endpoint for each record of the SRV answer, each
\* with its ip set.
C5_NeverPartial ==
    Compared =>
      \A dnsName \in DOMAIN dnsCache :
         /\ last.result[dnsName].why = "addr" => dnsCache[dnsName] = Unresolved
         /\ dnsCache[dnsName].defined =>
              LET list == dnsCache[dnsName].list
                  answer == last.result[dnsName].answer
              IN /\ Len(list) = Len(answer)
                 /\ {StripIp(list[i]) : i \in DOMAIN list} = Range(answer)
                 /\ \A i \in DOMAIN list : list[i].ip # NoIp
\* an address lookup of k1 failed, so k1 is Unresolved, while k2 holds a list
C5_Witness ==
    /\ Compared
    /\ DOMAIN dnsCache = {"k1", "k2"}
    /\ last.result["k1"].why = "addr"
    /\ dnsCache["k1"] = Unresolved
    /\ dnsCache["k2"].defined /\ dnsCache["k2"].list # <<>>

\* C6: reload is called only while HAProxy runs; a cycle that detects a
\* change before HAProxy runs, and whose write succeeds, leaves the rendered
\* output in the file, fulfils its promise and calls no reload.
C6_NoReloadBeforeStart ==
    /\ \A c \in CycleIds : cycles[c].phase = "reloading" => haproxyRunning
    /\ last.reload => last.running
    /\ (Compared /\ last.changed /\ ~last.running /\ ~last.writeFailed) =>
         /\ last.written /\ ~last.reload
         /\ cycles[last.cycle].phase = "fulfilled"
         /\ file.exists => file.text = last.newConfig
\* the bootstrap cycle wrote the file while HAProxy was not started
C6_Witness ==
    /\ last.cycle = 0
    /\ last.changed /\ last.written
    /\ ~haproxyRunning
    /\ file = FileOf(last.newConfig)

\* C7: a failed write and a failed reload reject the cycle, the rejection
\* ends the process with a non-zero status, a failed write is followed by no
\* reload, and nothing runs after the exit.
C7_ErrorsAreFatal ==
    /\ [](/\ \A c \in CycleIds :
               cycles[c].phase = "rejected" => pc = "exited" /\ exitStatus # 0
          /\ last.writeFailed =>
               /\ ~last.written /\ ~last.reload
               /\ cycles[last.cycle].phase = "rejected")
    /\ [][pc # "exited"]_vars
\* a reload called by a scheduled cycle failed
C7_Witness ==
    /\ last.cycle >= 1
    /\ last.reload
    /\ cycles[last.cycle].phase = "rejected"
    /\ pc = "exited"

Verified == verifyLog \in {"verified", "warnings"}
\* C8 as claimed: verification has succeeded before the first cycle starts.
C8_VerifyBeforeFirstCycle ==
    cycles[0].phase # "unstarted" => Verified
\* C8 as amended: verification runs only after the bootstrap cycle has
\* fulfilled its promise, and it has succeeded before HAProxy is started and
\* before any cycle of the timer starts.
C8_VerifyAfterBootstrap ==
    /\ verifyLog # "none" => cycles[0].phase = "fulfilled"
    /\ ( \/ startLog # "none" \/ haproxyRunning \/ nticks > 0
         \/ pc \in {"start", "schedule", "running"}
         \/ \E c \in CycleIds \ {0} : cycles[c].phase # "unstarted" )
       => Verified
\* a cycle of the timer has started after a successful verification
C8_Witness ==
    /\ nticks > 0
    /\ verifyLog = "verified"
    /\ cycles[0].phase = "fulfilled"

\* C9 as claimed: a verify that reports "not working" without an error
\* aborts startup.
C9_NotWorkingAborts ==
    verifyLog = "warnings" => (~haproxyRunning /\ startLog = "none" /\ nticks = 0)
\* C9 as amended: a verify that reports "not working" without an error does
\* not abort startup; the main sequence goes on to startHAProxy, and the
\* process ends afterwards only through a failed start or a rejected cycle.
C9_NotWorkingGoesOn ==
    verifyLog = "warnings" =>
      \/ pc \in {"start", "schedule", "running"}
      \/ /\ pc = "exited"
         /\ \/ startLog = "err"
            \/ \E c \in CycleIds \ {0} : cycles[c].phase = "rejected"
\* HAProxy runs after a verify that reported "not working"
C9_Witness ==
    /\ verifyLog = "warnings"
    /\ haproxyRunning
    /\ pc = "running"

\* C10: a missing file, a verify error and a start error end the process
\* with a non-zero status before the timer is installed; after a failed
\* verification HAProxy is never started.
C10_StartupFailuresAbort ==
    /\ verifyLog \in {"nofile", "err"} =>
         /\ pc = "exited" /\ exitStatus # 0
         /\ startLog = "none" /\ ~haproxyRunning /\ nticks = 0
    /\ startLog = "err" =>
         /\ pc = "exited" /\ exitStatus # 0
         /\ ~haproxyRunning /\ nticks = 0
         /\ \A c \in CycleIds \ {0} : cycles[c].phase = "unstarted"
\* the file was missing when verifyConfiguration looked
C10_Witness ==
    /\ verifyLog = "nofile"
    /\ pc = "exited"
    /\ exitStatus = 255

\* the names the template looks up, read off the template
ReferencedNames == {n \in DnsNames : \E i \in DOMAIN template :
                       template[i].type = "dns-srv" /\ template[i].dnsName = n}
\* an endpoint as a stored list holds it
IsEndpoint(e) ==
    /\ DOMAIN e = {"name", "ip", "port", "priority", "weight"}
    /\ e.name \in DOMAIN NameRank
    /\ e.ip # NoIp
\* C11: after the dry run the Map holds exactly the names the template
\* looks up, in every state, with overlapping cycles too; a value is
\* Unresolved, the empty list or a list of endpoints.
C11_KeySetFixed ==
    pc # "checkTemplate" =>
      /\ DOMAIN dnsCache = ReferencedNames
      /\ \A dnsName \in DOMAIN dnsCache :
           \/ dnsCache[dnsName] = Unresolved
           \/ /\ dnsCache[dnsName].defined
              /\ \A i \in DOMAIN dnsCache[dnsName].list :
                   IsEndpoint(dnsCache[dnsName].list[i])
\* a cycle has stored a list for k2 and undefined for k3 while another cycle
\* is still resolving
C11_Witness ==
    /\ \E c \in CycleIds : cycles[c].phase = "resolving"
    /\ DOMAIN dnsCache = {"k2", "k3"}
    /\ origin["k2"] >= 1
    /\ dnsCache["k2"].defined /\ dnsCache["k2"].list # <<>>
    /\ dnsCache["k3"] = Unresolved

\* the text segments of the template, in order
TextLines(tpl) ==
    LET texts == SelectSeq(tpl, LAMBDA seg : seg.type = "text")
    IN [i \in DOMAIN texts |-> texts[i].line]
\* C12: right after the dry run the Map holds exactly the names the template
\* looks up, each bound to undefined, however often a name occurs; a second
\* dry run leaves the same Map; the dry run renders no block and no lookup
\* has been issued.
C12_ScanIdempotent ==
    pc = "bootstrap" /\ cycles[0].phase = "unstarted" =>
      /\ DOMAIN dnsCache = ReferencedNames
      /\ \A dnsName \in DOMAIN dnsCache : dnsCache[dnsName] = Unresolved
      /\ dryRun(template, dnsCache).map = dnsCache
      /\ dryRun(template, <<>>).out = TextLines(template)
      /\ \A c \in CycleIds : cycles[c] = Unstarted
\* the dry run is over for a template that looks up the same name twice
C12_Witness ==
    /\ pc = "bootstrap" /\ cycles[0].phase = "unstarted"
    /\ Cardinality({i \in DOMAIN template : template[i].type = "dns-srv"}) = 2
    /\ DOMAIN dnsCache = {"k2"}

\* the promises of the cycles in flight and of the last comparison
Promises ==
    UNION {{cycles[c].result[dnsName] : dnsName \in DOMAIN cycles[c].result} :
              c \in CycleIds} \cup
    {last.result[dnsName] : dnsName \in DOMAIN last.result}
\* C13: a target whose name is an IPv4 or IPv6 literal gets no address lookup
\* and its name as ip; every other target gets exactly one lookup and, once
\* answered, the first address of the answer as ip.
C13_LiteralSkipsLookup ==
    \A p \in Promises : \A i \in DOMAIN p.entries :
       LET entry == p.entries[i]
       IN /\ entry.name \in LiteralNames =>
               p.asked[i] = 0 /\ entry.ip = entry.name
          /\ entry.name \notin LiteralNames =>
               /\ p.asked[i] = 1
               /\ entry.ip \in {NoIp, AddressAnswer(entry.name)[1]}
               /\ p.st = "fulfilled" => entry.ip # NoIp
\* a stored list with a literal target and a looked-up target whose answer
\* has two addresses
C13_Witness ==
    /\ Compared
    /\ "k1" \in DOMAIN last.result
    /\ last.result["k1"].st = "fulfilled"
    /\ \E i, j \in DOMAIN last.result["k1"].entries :
          /\ last.result["k1"].entries[i].name \in LiteralNames
          /\ last.result["k1"].entries[i].ip = "10.0.0.9"
          /\ last.result["k1"].entries[j].name = "a"
          /\ last.result["k1"].entries[j].ip = "10.0.0.1"

\* C14: a started cycle completes on every path: once its comparison is
\* done its promise is settled, or waits for the reload callback that
\* settles it; no cycle is left with a promise nothing will settle.
C14_CycleCompletes ==
    \A c \in CycleIds :
       cycles[c].phase \in {"unstarted", "resolving", "reloading",
                            "fulfilled", "rejected"}

\* C15: startup makes progress whatever the file holds: while the main
\* sequence waits for the bootstrap cycle, that cycle still has a step to
\* take.
C15_StartupProgress ==
    pc = "bootstrap" => \/ cycles[0].phase = "unstarted"
                        \/ InFlight(0)

\* C16: at most one cycle is between the start of its resolution and its
\* completion.
C16_SingleFlight ==
    \A c1, c2 \in CycleIds : InFlight(c1) /\ InFlight(c2) => c1 = c2

\* C17: results never go backwards: a cycle started after the one whose
\* results the Map holds has not stored its own results yet.
C17_NoOlderResultsOverNewer ==
    \A key \in DOMAIN origin : \A c \in CycleIds :
       c > origin[key] => cycles[c].phase \in {"unstarted", "resolving"}

\* C18: the steps of a cycle are ordered: the render reads the values stored
\* for the settled lookups of every name, the comparison reads the finished
\* render, the file is written only after the comparison found a change, and
\* reload is called only after the write.
C18_StepsOrdered ==
    Compared =>
      /\ \A dnsName \in DOMAIN last.result :
            last.result[dnsName].st \in {"fulfilled", "rejected"}
      /\ last.newConfig =
           render(template,
                  [dnsName \in DOMAIN last.result |->
                      IF last.result[dnsName].st = "fulfilled"
                      THEN Resolved(last.result[dnsName].entries)
                      ELSE Unresolved])
      /\ last.changed = ~SameModuloWhitespace(last.originalConfig, last.newConfig)
      /\ last.written => last.changed /\ ~last.writeFailed
      /\ last.reload => last.written /\ last.running
\* a scheduled cycle went through every step: two names settled, one after
\* address lookups and one by a failure, the file written, reload called
C18_Witness ==
    /\ last.cycle >= 1
    /\ last.reload
    /\ cycles[last.cycle].phase = "reloading"
    /\ file = FileOf(last.newConfig)
    /\ \E k1, k2 \in DOMAIN last.result :
          /\ last.result[k1].st = "fulfilled"
          /\ \E i \in DOMAIN last.result[k1].asked : last.result[k1].asked[i] = 1
          /\ last.result[k2].st = "rejected"

\* C19: the Map is updated a whole batch at a time: in every state all its
\* values were stored by the same cycle, or all are the undefined values of
\* the dry run; the render of a cycle reads such a Map, with overlapping
\* cycles too.
C19_BatchAtomic ==
    /\ \A key1, key2 \in DOMAIN origin : origin[key1] = origin[key2]
    /\ \A key \in DOMAIN origin :
          origin[key] = -1 => dnsCache[key] = Unresolved
    /\ Compared => last.newConfig = render(template, dnsCache)
\* the Map holds the batch of cycle 2 while cycle 1, started before, has one
\* name settled and the other still pending
C19_Witness ==
    /\ Compared /\ last.cycle = 2
    /\ DOMAIN origin = {"k2", "k3"}
    /\ origin["k2"] = 2 /\ origin["k3"] = 2
    /\ cycles[1].phase = "resolving"
    /\ cycles[1].result["k2"].st = "fulfilled"
    /\ cycles[1].result["k3"].st = "pending"

====
